---- MODULE Spec2Model ----
(***************************************************************************)
(* Model of the monster extractor (html_to_json.py) and of the tabulator   *)
(* (json_to_csv.py).                                                       *)
(*                                                                         *)
(* A text is a sequence of one-character strings; the en dash and the em   *)
(* dash are the characters "ndash" and "mdash".  An HTML document is what  *)
(* the markup parser hands back: a sequence of elements in document order, *)
(* each with a tag, its child elements (tag and text) and the text that    *)
(* follows them.  A Markdown document is the sequence of its lines.        *)
(***************************************************************************)
EXTENDS Integers, Sequences, FiniteSets, TLC

\* ------------------------------------------------------------------ text

UPPER == <<"A", "B", "C", "D", "E", "F", "G", "H", "I", "J", "K", "L", "M", "N", "O", "P", "Q", "R", "S", "T", "U", "V", "W", "X", "Y", "Z">>
LOWER == <<"a", "b", "c", "d", "e", "f", "g", "h", "i", "j", "k", "l", "m", "n", "o", "p", "q", "r", "s", "t", "u", "v", "w", "x", "y", "z">>
DIGITS == {"0", "1", "2", "3", "4", "5", "6", "7", "8", "9"}
EnDash == "ndash"
EmDash == "mdash"

Range(s) == {s[i] : i \in 1..Len(s)}

IndexIn(s, c) == CHOOSE i \in 1..Len(s) : s[i] = c

IsSpace(c) == c \in {" ", "\t", "\n"}

\* \w of the regular expressions: letters, digits and the underscore
IsWordChar(c) == c \in Range(UPPER) \cup Range(LOWER) \cup DIGITS \cup {"_"}

LowerChar(c) == IF c \in Range(UPPER) THEN LOWER[IndexIn(UPPER, c)] ELSE c

UpperChar(c) == IF c \in Range(LOWER) THEN UPPER[IndexIn(LOWER, c)] ELSE c

\* str.lower()
Lower(s) == [i \in 1..Len(s) |-> LowerChar(s[i])]

\* str.capitalize(): first character upper-cased, the rest lower-cased
Capitalize(s) == [i \in 1..Len(s) |-> IF i = 1 THEN UpperChar(s[i]) ELSE LowerChar(s[i])]

RECURSIVE LStrip(_)
LStrip(s) == IF s # <<>> /\ IsSpace(Head(s)) THEN LStrip(Tail(s)) ELSE s

RECURSIVE RStrip(_)
RStrip(s) ==
  IF s # <<>> /\ IsSpace(s[Len(s)]) THEN RStrip(SubSeq(s, 1, Len(s) - 1)) ELSE s

\* str.strip()
Strip(s) == RStrip(LStrip(s))

StartsWith(s, p) == Len(p) <= Len(s) /\ SubSeq(s, 1, Len(p)) = p

EndsWith(s, p) == Len(p) <= Len(s) /\ SubSeq(s, Len(s) - Len(p) + 1, Len(s)) = p

\* str.find(): index of the first occurrence of sub at or after i, 0 when none
RECURSIVE FindFrom(_, _, _)
FindFrom(s, sub, i) ==
  IF i + Len(sub) - 1 > Len(s) THEN 0
  ELSE IF SubSeq(s, i, i + Len(sub) - 1) = sub THEN i
  ELSE FindFrom(s, sub, i + 1)

\* sub in s
Contains(s, sub) == FindFrom(s, sub, 1) # 0

\* s.split(sep, 1)[0], and s.split(sep)[0]
BeforeFirst(s, sep) ==
  IF Contains(s, sep) THEN SubSeq(s, 1, FindFrom(s, sep, 1) - 1) ELSE s

\* str.replace(old, new): every non-overlapping occurrence, left to right.  With an
\* empty old the callers' new is empty too, and the text comes back unchanged.
RECURSIVE ReplaceAll(_, _, _)
ReplaceAll(s, old, new) ==
  IF old = <<>> \/ s = <<>> THEN s
  ELSE IF StartsWith(s, old)
       THEN new \o ReplaceAll(SubSeq(s, Len(old) + 1, Len(s)), old, new)
       ELSE <<Head(s)>> \o ReplaceAll(Tail(s), old, new)

\* html.unescape(), for the one entity of the documents' alphabet
HtmlUnescape(s) == ReplaceAll(s, <<"&", "a", "m", "p", ";">>, <<"&">>)

\* re.sub(r"\s+", " ", s): every run of white space becomes one blank
RECURSIVE CollapseSpace(_)
CollapseSpace(s) ==
  IF s = <<>> THEN <<>>
  ELSE IF IsSpace(Head(s)) THEN <<" ">> \o CollapseSpace(LStrip(s))
  ELSE <<Head(s)>> \o CollapseSpace(Tail(s))

clean(txt) == Strip(CollapseSpace(HtmlUnescape(txt)))

TRAIL_PUNCT == {":", EnDash, EmDash, "-"}

\* re.sub(r"[:ndash mdash -]\s*$", "", clean(label).lower()): clean() leaves no
\* trailing white space, so the match is the last character alone
normalise(label) ==
  LET l == Lower(clean(label))
  IN  IF l # <<>> /\ l[Len(l)] \in TRAIL_PUNCT THEN SubSeq(l, 1, Len(l) - 1) ELSE l

RECURSIVE strip_leading_punct(_)
strip_leading_punct(txt) ==
  IF txt # <<>> /\ (IsSpace(Head(txt)) \/ Head(txt) \in TRAIL_PUNCT)
  THEN strip_leading_punct(Tail(txt))
  ELSE txt

\* the first maximal run of characters of `set` in s (re.search of [set]+), or ""
RECURSIVE TakeWhile(_, _)
TakeWhile(s, set) ==
  IF s # <<>> /\ Head(s) \in set THEN <<Head(s)>> \o TakeWhile(Tail(s), set) ELSE <<>>

RECURSIVE FirstRun(_, _)
FirstRun(s, set) ==
  IF s = <<>> THEN <<>>
  ELSE IF Head(s) \in set THEN TakeWhile(s, set)
  ELSE FirstRun(Tail(s), set)

CR_CHARS == DIGITS \cup {".", "/"}

number_only(text) == FirstRun(text, DIGITS)

first_cr_token(text) == FirstRun(text, CR_CHARS)

\* str.split(): the maximal runs of non-space characters
RECURSIVE TakeWord(_)
TakeWord(s) ==
  IF s # <<>> /\ ~IsSpace(Head(s)) THEN <<Head(s)>> \o TakeWord(Tail(s)) ELSE <<>>

RECURSIVE SplitWords(_)
SplitWords(s) ==
  LET t == LStrip(s)
      w == TakeWord(t)
  IN  IF t = <<>> THEN <<>>
      ELSE <<w>> \o SplitWords(SubSeq(t, Len(w) + 1, Len(t)))

\* " ".join(words)
RECURSIVE JoinWords(_)
JoinWords(ws) ==
  IF ws = <<>> THEN <<>>
  ELSE IF Len(ws) = 1 THEN ws[1]
  ELSE ws[1] \o <<" ">> \o JoinWords(Tail(ws))

SIZE_WORDS ==
  {<<"t", "i", "n", "y">>, <<"s", "m", "a", "l", "l">>, <<"m", "e", "d", "i", "u", "m">>, <<"l", "a", "r", "g", "e">>, <<"h", "u", "g", "e">>, <<"g", "a", "r", "g", "a", "n", "t", "u", "a", "n">>}

CANON_TYPES ==
  {<<"A", "b", "e", "r", "r", "a", "t", "i", "o", "n">>, <<"B", "e", "a", "s", "t">>, <<"C", "e", "l", "e", "s", "t", "i", "a", "l">>, <<"C", "o", "n", "s", "t", "r", "u", "c", "t">>, <<"D", "r", "a", "g", "o", "n">>,
   <<"E", "l", "e", "m", "e", "n", "t", "a", "l">>, <<"F", "e", "y">>, <<"F", "i", "e", "n", "d">>, <<"G", "i", "a", "n", "t">>, <<"H", "u", "m", "a", "n", "o", "i", "d">>, <<"M", "o", "n", "s", "t", "r", "o", "s", "i", "t", "y">>,
   <<"O", "o", "z", "e">>, <<"P", "l", "a", "n", "t">>, <<"S", "w", "a", "r", "m">>, <<"U", "n", "d", "e", "a", "d">>}

canonical_type(txt) ==
  LET key == Lower(Strip(txt))
  IN  IF \E t \in CANON_TYPES : Lower(t) = key
      THEN CHOOSE t \in CANON_TYPES : Lower(t) = key
      ELSE Capitalize(txt)

IsSizeWord(t) == Lower(t) \in SIZE_WORDS

extract_type_from_em(em_text) ==
  LET base   == BeforeFirst(em_text, <<",">>)
      tokens == SelectSeq(SplitWords(base), LAMBDA t : ~IsSizeWord(t))
  IN  clean(JoinWords(tokens))

\* ------------------------------------------------------- label -> value maps

EmptyMap == <<>>

Put(map, k, v) == [x \in (DOMAIN map) \cup {k} |-> IF x = k THEN v ELSE map[x]]

\* dict.get(k, default)
Get(map, k, default) == IF k \in DOMAIN map THEN map[k] ELSE default

\* d.get(k1) or d.get(k2, ""): an absent or empty first entry gives way to the second
GetOr(map, k1, k2) ==
  IF k1 \in DOMAIN map /\ map[k1] # <<>> THEN map[k1] ELSE Get(map, k2, <<>>)

K_cr        == <<"c", "r">>
K_challenge == <<"c", "h", "a", "l", "l", "e", "n", "g", "e", " ", "r", "a", "t", "i", "n", "g">>
K_ac        == <<"a", "r", "m", "o", "r", " ", "c", "l", "a", "s", "s">>
K_hp        == <<"h", "i", "t", " ", "p", "o", "i", "n", "t", "s">>
K_languages == <<"l", "a", "n", "g", "u", "a", "g", "e", "s">>
K_skills    == <<"s", "k", "i", "l", "l", "s">>
K_gear      == <<"g", "e", "a", "r">>
K_source    == <<"s", "o", "u", "r", "c", "e">>
K_type      == <<"t", "y", "p", "e">>

EDITION_MARK == <<"_", "m", "m", "_", "2", "0", "2", "4">>
SRD_SOURCE   == <<"W", "o", "t", "C", " ", "S", "R", "D", " ", "5", ".", "2">>
PAGE_MARK    == <<" ", "p", "a", "g", "e">>
LEGENDARY    == <<"l", "e", "g", "e", "n", "d", "a", "r", "y", " ", "a", "c", "t", "i", "o", "n", "s">>

Record(name, cr, rows, type, source, leg, file) ==
  [name      |-> name,
   cr        |-> cr,
   ac        |-> number_only(Get(rows, K_ac, <<>>)),
   hp        |-> number_only(Get(rows, K_hp, <<>>)),
   languages |-> Get(rows, K_languages, <<>>),
   type      |-> type,
   skills    |-> ReplaceAll(Get(rows, K_skills, <<>>), <<",">>, <<";">>),
   gear      |-> Get(rows, K_gear, <<>>),
   source    |-> source,
   hasLegendaryActions |-> IF leg THEN "Yes" ELSE "No",
   file      |-> file]

NoneResult == [kind |-> "none"]
RaiseResult(exc) == [kind |-> "raise", exc |-> exc]
RecResult(rec) == [kind |-> "record", rec |-> rec]

\* ------------------------------------------------------------ HTML parser

RECURSIVE Concat(_)
Concat(texts) == IF texts = <<>> THEN <<>> ELSE Head(texts) \o Concat(Tail(texts))

KidTexts(el) == [i \in 1..Len(el.kids) |-> el.kids[i].text]

\* Tag.get_text(): the element's text nodes, concatenated
get_text(el) == Concat(KidTexts(el)) \o el.text

\* Tag.find_all(tag) on the document, and on one element
find_all(doc, tag) == SelectSeq(doc, LAMBDA el : el.tag = tag)

KidsOf(el, tag) == SelectSeq(el.kids, LAMBDA k : k.tag = tag)

\* soup.select_one("h1, h2"): the headings, of which the code takes the first
Headings(doc) == SelectSeq(doc, LAMBDA el : el.tag \in {"h1", "h2"})

\* the document's string nodes, in document order
RECURSIVE TextNodes(_)
TextNodes(doc) ==
  IF doc = <<>> THEN <<>>
  ELSE SelectSeq(KidTexts(Head(doc)) \o <<Head(doc).text>>, LAMBDA t : t # <<>>)
       \o TextNodes(Tail(doc))

\* hdr = tr.find("th") or tr.find("td"): index of the header cell among the cells, 0
\* when the row has none
HdrIndex(tr) ==
  LET ths == {i \in 1..Len(tr.kids) : tr.kids[i].tag = "th"}
      tds == {i \in 1..Len(tr.kids) : tr.kids[i].tag = "td"}
      Min(S) == CHOOSE i \in S : \A j \in S : i <= j
  IN  IF ths # {} THEN Min(ths) ELSE IF tds # {} THEN Min(tds) ELSE 0

\* hdr.find_next_sibling("td")
DataIndex(tr) ==
  LET h   == HdrIndex(tr)
      tds == {i \in 1..Len(tr.kids) : i > h /\ tr.kids[i].tag = "td"}
  IN  IF h = 0 \/ tds = {} THEN 0 ELSE CHOOSE i \in tds : \A j \in tds : i <= j

RECURSIVE TableRows(_, _)
TableRows(trs, rows) ==
  IF trs = <<>> THEN rows
  ELSE LET tr == Head(trs)
           d  == DataIndex(tr)
       IN  TableRows(Tail(trs),
             IF d = 0 THEN rows
             ELSE Put(rows, normalise(tr.kids[HdrIndex(tr)].text),
                      strip_leading_punct(clean(tr.kids[d].text))))

RECURSIVE BulletRows(_, _)
BulletRows(lis, rows) ==
  IF lis = <<>> THEN rows
  ELSE LET li      == Head(lis)
           strongs == KidsOf(li, "strong")
       IN  BulletRows(Tail(lis),
             IF strongs = <<>> THEN rows
             ELSE Put(rows, normalise(strongs[1].text),
                      strip_leading_punct(
                        clean(ReplaceAll(get_text(li), strongs[1].text, <<>>)))))

HtmlRows(doc) == BulletRows(find_all(doc, "li"), TableRows(find_all(doc, "tr"), EmptyMap))

\* the type scan's outcome for one paragraph: whether the loop breaks there, and the
\* type text it leaves
ParaScan(p) ==
  LET ems == KidsOf(p, "em")
  IN  IF Len(ems) >= 2 THEN [stop |-> TRUE, txt |-> clean(ems[2].text)]
      ELSE IF Len(ems) = 1 /\ extract_type_from_em(ems[1].text) # <<>>
      THEN [stop |-> TRUE, txt |-> extract_type_from_em(ems[1].text)]
      ELSE [stop |-> FALSE, txt |-> <<>>]

RECURSIVE TypeScan(_)
TypeScan(ps) ==
  IF ps = <<>> THEN <<>>
  ELSE IF ParaScan(Head(ps)).stop THEN ParaScan(Head(ps)).txt
  ELSE TypeScan(Tail(ps))

\* canonical_type(type_txt.split("(", 1)[0].strip())
FinishType(type_txt) == canonical_type(Strip(BeforeFirst(type_txt, <<"(">>)))

\* re.search(r"\blegendary actions\b", text, re.I): the phrase at i, with no word
\* character right before it or right after it
RECURSIVE LegendaryFrom(_, _)
LegendaryFrom(text, i) ==
  LET j == i + Len(LEGENDARY)
  IN  IF j - 1 > Len(text) THEN FALSE
      ELSE IF /\ Lower(SubSeq(text, i, j - 1)) = LEGENDARY
              /\ (i = 1 \/ ~IsWordChar(text[i - 1]))
              /\ (j > Len(text) \/ ~IsWordChar(text[j]))
      THEN TRUE
      ELSE LegendaryFrom(text, i + 1)

\* the pattern without its \b anchors: the phrase anywhere in the text
LegendaryAnywhere(text) == Contains(Lower(text), LEGENDARY)

LegendaryMatch(text) == LegendaryFrom(text, 1)

\* bool(soup.find(string=re.compile(...))): some string node matches
HtmlHasLeg(doc) ==
  \E n \in 1..Len(TextNodes(doc)) : LegendaryMatch(TextNodes(doc)[n])

\* name = clean(heading.get_text() or path.stem)
HtmlName(heading, stem) ==
  clean(IF get_text(heading) # <<>> THEN get_text(heading) ELSE stem)

HtmlSource(rows, stem) ==
  IF EndsWith(stem, EDITION_MARK) THEN SRD_SOURCE
  ELSE BeforeFirst(Get(rows, K_source, <<>>), PAGE_MARK)

parse_html(file) ==
  LET doc  == file.doc
      rows == HtmlRows(doc)
      cr   == first_cr_token(GetOr(rows, K_cr, K_challenge))
  IN  IF Headings(doc) = <<>> THEN RaiseResult("AttributeError")
      ELSE IF cr = <<>> THEN NoneResult
      ELSE RecResult(Record(HtmlName(Headings(doc)[1], file.stem), cr, rows,
                            FinishType(TypeScan(find_all(doc, "p"))),
                            HtmlSource(rows, file.stem), HtmlHasLeg(doc),
                            file.stem \o <<".", "h", "t", "m", "l">>))

\* -------------------------------------------------------- Markdown parser

\* lines = [l.strip() for l in text.splitlines() if l.strip()]
MdLines(doc) == SelectSeq([i \in 1..Len(doc) |-> Strip(doc[i])], LAMBDA l : l # <<>>)

STARS == <<"*", "*">>

\* _MD_FIELD_RE = ^\*\*(.+?)\*\*[:,]?\s*(.+)$ : the position of the closing ** of the
\* shortest label that leaves a non-empty rest, 0 when the line does not match
MdFieldClose(ln) ==
  LET ok == {j \in 4..Len(ln) : j + 2 <= Len(ln) /\ SubSeq(ln, j, j + 1) = STARS}
  IN  IF StartsWith(ln, STARS) /\ ok # {} THEN CHOOSE j \in ok : \A k \in ok : j <= k
      ELSE 0

\* group(2): the rest after an optional colon or comma and white space; when those
\* would take the whole rest, the expression backs off by one character
MdFieldValue(rest) ==
  LET r1 == IF Head(rest) \in {":", ","} THEN Tail(rest) ELSE rest
      g  == LStrip(r1)
  IN  IF g # <<>> THEN g
      ELSE IF IsSpace(rest[Len(rest)]) THEN <<rest[Len(rest)]>>
      ELSE rest

RECURSIVE MdFields(_, _)
MdFields(lines, fields) ==
  IF lines = <<>> THEN fields
  ELSE LET ln == Head(lines)
           j  == MdFieldClose(ln)
       IN  MdFields(Tail(lines),
             IF j = 0 THEN fields
             ELSE Put(fields, normalise(SubSeq(ln, 3, j - 1)),
                      strip_leading_punct(
                        Strip(MdFieldValue(SubSeq(ln, j + 2, Len(ln)))))))

ITALIC_MARKS == {"_", "*"}

\* _ITALIC_RE.findall(line)[0] for [_*](.+?)[_*] : the first match's group, as a
\* one-element sequence, or the empty sequence when nothing matches
FirstItalic(ln) ==
  LET Closes(i) == {j \in (i + 2)..Len(ln) : ln[j] \in ITALIC_MARKS}
      opens == {i \in 1..Len(ln) : ln[i] \in ITALIC_MARKS /\ Closes(i) # {}}
      Min(S) == CHOOSE i \in S : \A j \in S : i <= j
  IN  IF opens = {} THEN <<>>
      ELSE <<SubSeq(ln, Min(opens) + 1, Min(Closes(Min(opens))) - 1)>>

MdType(lines, fields) ==
  LET explicit == Get(fields, K_type, <<>>)
  IN  IF explicit = <<>> /\ Len(lines) > 1 /\ FirstItalic(lines[2]) # <<>>
      THEN extract_type_from_em(FirstItalic(lines[2])[1])
      ELSE explicit

MdSource(fields, stem) ==
  IF EndsWith(stem, EDITION_MARK) THEN SRD_SOURCE
  ELSE BeforeFirst(Get(fields, K_source, <<>>), PAGE_MARK)

\* any("legendary actions" in ln.lower() for ln in lines)
MdHasLeg(lines) == \E n \in 1..Len(lines) : Contains(Lower(lines[n]), LEGENDARY)

RECURSIVE LStripHash(_)
LStripHash(s) == IF s # <<>> /\ Head(s) = "#" THEN LStripHash(Tail(s)) ELSE s

\* cr = fields.get("cr") or fields.get("challenge rating"), taken as it stands
MdCr(fields) == GetOr(fields, K_cr, K_challenge)

parse_md(file) ==
  LET lines  == MdLines(file.doc)
      fields == MdFields(lines, EmptyMap)
      cr     == MdCr(fields)
  IN  IF cr = <<>> THEN NoneResult
      ELSE RecResult(Record(clean(LStripHash(lines[1])), cr, fields,
                            FinishType(MdType(lines, fields)),
                            MdSource(fields, file.stem), MdHasLeg(lines),
                            file.stem \o <<".", "m", "d">>))

\* ------------------------------------------------------------- file names

\* the characters of the model in code-point order
CODE_ORDER ==
  <<"\t", "\n", " ", "#", "&", "(", ")", "*", ",", "-", ".", "/", "0", "1", "2", "3", "4", "5", "6", "7", "8", "9", ":", ";", "A", "B", "C", "D", "E", "F", "G", "H", "I", "J", "K", "L", "M", "N", "O", "P", "Q", "R", "S", "T", "U", "V", "W", "X", "Y", "Z", "_", "a", "b", "c", "d", "e", "f", "g", "h", "i", "j", "k", "l", "m", "n", "o", "p", "q", "r", "s", "t", "u", "v", "w", "x", "y", "z", "ndash", "mdash">>

Code(c) == IndexIn(CODE_ORDER, c)

\* a < b for Python strings: by code point, a proper prefix first
RECURSIVE LexLess(_, _)
LexLess(a, b) ==
  IF b = <<>> THEN FALSE
  ELSE IF a = <<>> THEN TRUE
  ELSE IF Code(Head(a)) # Code(Head(b)) THEN Code(Head(a)) < Code(Head(b))
  ELSE LexLess(Tail(a), Tail(b))

\* sorted(S): the texts of S in ascending order
RECURSIVE Sorted(_)
Sorted(S) ==
  IF S = {} THEN <<>>
  ELSE LET m == CHOOSE x \in S : \A y \in S \ {x} : LexLess(x, y)
       IN  <<m>> \o Sorted(S \ {m})

HTML_SUFFIX == <<".", "h", "t", "m", "l">>
MD_SUFFIX   == <<".", "m", "d">>

\* sorted(dir.glob("*" + suffix)): the directory's files, by file name
Glob(dir, suffix) ==
  LET names == Sorted({stem \o suffix : stem \in DOMAIN dir})
  IN  [i \in 1..Len(names) |->
         LET stem == SubSeq(names[i], 1, Len(names[i]) - Len(suffix))
         IN  [stem |-> stem, doc |-> dir[stem]]]

\* ------------------------------------------------------------- documents

El(tag, kids, text) == [tag |-> tag, kids |-> kids, text |-> text]
Kid(tag, text) == [tag |-> tag, text |-> text]

E_h1      == El("h1", <<>>, <<"W", "o", "l", "f">>)
E_li_cr   == El("li", <<Kid("strong", <<"C", "R">>)>>, <<" ", "1", "/", "4", " ", "(", "X", "P", " ", "5", "0", ")">>)
E_li_bad  == El("li", <<Kid("strong", <<"C", "R", ":">>)>>, <<" ", "u", "n", "k", "n", "o", "w", "n">>)
E_tr_cr   == El("tr", <<Kid("th", <<"C", "h", "a", "l", "l", "e", "n", "g", "e", " ", "R", "a", "t", "i", "n", "g", ":">>), Kid("td", <<" ", "1", "3", " ">>)>>, <<>>)
E_tr_ac   == El("tr", <<Kid("td", <<"A", "r", "m", "o", "r", " ", "C", "l", "a", "s", "s">>), Kid("td", <<"1", "5", " ", "(", "n", "a", "t", "u", "r", "a", "l", " ", "a", "r", "m", "o", "r", ")">>)>>, <<>>)

\* the directories' documents of the extractor runs
HtmlPool ==
  << <<E_h1, E_li_cr>>,       \* heading and CR: a record
     <<E_h1, E_tr_ac>>,       \* no CR entry: skipped
     <<E_h1, E_li_bad>>,      \* a CR entry without a token: skipped
     <<E_li_cr>>,             \* no heading
     <<E_h1, E_tr_cr>> >>     \* CR under "challenge rating"

MdPool ==
  << <<<<"#", " ", "W", "o", "l", "f">>, <<"*", "*", "C", "R", "*", "*", " ", "1", "/", "4", " ", "(", "X", "P", " ", "5", "0", ")">>>>,   \* a record
     <<<<"#", " ", "W", "o", "l", "f">>, <<"*", "*", "A", "r", "m", "o", "r", " ", "C", "l", "a", "s", "s", "*", "*", " ", "1", "5">>>>,   \* no CR entry
     <<<<"#", " ", "R", "a", "t">>,  <<"*", "*", "C", "R", ":", "*", "*", " ", "u", "n", "k", "n", "o", "w", "n">>>>,      \* a CR entry without a token
     <<>> >>                                   \* an empty file

StemPool == <<<<"w", "o", "l", "f">>, <<"r", "a", "t">>, <<"o", "w", "l", "_", "m", "m", "_", "2", "0", "2", "4">>, <<"b", "a", "t">>>>

MaxFiles == 2

Stems == {StemPool[i] : i \in 1..MaxFiles}

\* every directory holding files of `pool` under some of the stems
Dirs(pool) ==
  UNION {[S -> Range(pool)] : S \in SUBSET Stems}

\* the documents of the single-document parser runs: for HTML a head (heading and CR
\* entry, or not) followed by up to MaxBody paragraphs; for Markdown up to MaxLines lines
E_h2_empty == El("h2", <<>>, <<>>)

HtmlHeads ==
  { <<E_h1, E_li_cr>>, <<E_li_cr>>, <<E_h1>>, <<E_h1, E_li_bad>>, <<E_h2_empty, E_tr_cr>> }

P_two_empty == El("p", <<Kid("em", <<"L", "a", "r", "g", "e">>), Kid("em", <<" ">>)>>, <<>>)
P_two       == El("p", <<Kid("em", <<"L", "a", "r", "g", "e">>), Kid("em", <<"d", "r", "a", "g", "o", "n", " ", "(", "c", "h", "r", "o", "m", "a", "t", "i", "c", ")">>)>>, <<>>)
P_one       == El("p", <<Kid("em", <<"M", "e", "d", "i", "u", "m", " ", "u", "n", "d", "e", "a", "d", ",", " ", "l", "a", "w", "f", "u", "l", " ", "e", "v", "i", "l">>)>>, <<>>)
P_size      == El("p", <<Kid("em", <<"L", "a", "r", "g", "e">>)>>, <<>>)
P_leg       == El("p", <<>>, <<"L", "e", "g", "e", "n", "d", "a", "r", "y", " ", "A", "c", "t", "i", "o", "n", "s", ".">>)
P_leg_glued == El("p", <<>>, <<"T", "h", "e", " ", "s", "u", "b", "l", "e", "g", "e", "n", "d", "a", "r", "y", " ", "a", "c", "t", "i", "o", "n", "s">>)
P_leg_split == El("p", <<Kid("strong", <<"L", "e", "g", "e", "n", "d", "a", "r", "y">>)>>, <<" ", "A", "c", "t", "i", "o", "n", "s">>)

BodyPool == {P_two_empty, P_two, P_one, P_size, P_leg, P_leg_glued, P_leg_split}

LinePool ==
  { <<"#", " ", "W", "o", "l", "f">>, <<"*", "*", "C", "R", "*", "*", " ", "1", "/", "4", " ", "(", "X", "P", " ", "5", "0", ")">>, <<"*", "*", "C", "R", ":", "*", "*", " ", "u", "n", "k", "n", "o", "w", "n">>, <<"*", "*", "C", "h", "a", "l", "l", "e", "n", "g", "e", " ", "R", "a", "t", "i", "n", "g", "*", "*", ":", " ", "5">>,
    <<"_", "L", "a", "r", "g", "e", " ", "d", "r", "a", "g", "o", "n", ",", " ", "c", "h", "a", "o", "t", "i", "c", " ", "e", "v", "i", "l", "_">>, <<"L", "e", "g", "e", "n", "d", "a", "r", "y", " ", "A", "c", "t", "i", "o", "n", "s", ".">>, <<"T", "h", "e", " ", "s", "u", "b", "l", "e", "g", "e", "n", "d", "a", "r", "y", " ", "a", "c", "t", "i", "o", "n", "s">>,
    <<"*", "*", "T", "y", "p", "e", "*", "*", " ", "u", "n", "d", "e", "a", "d", " ", "(", "s", "h", "a", "p", "e", "c", "h", "a", "n", "g", "e", "r", ")">>, <<" ", " ">> }

MaxBody == 2

MaxLines == 3

SeqsUpTo(S, n) == UNION {[1..k -> S] : k \in 0..n}

ParseInputs ==
  {[kind |-> "html", stem |-> StemPool[1], doc |-> h \o b] :
     h \in HtmlHeads, b \in SeqsUpTo(BodyPool, MaxBody)}
  \cup
  {[kind |-> "md", stem |-> StemPool[1], doc |-> d] : d \in SeqsUpTo(LinePool, MaxLines)}

VARIABLES
  htmlDir,    \* monsters_html: file stem -> document
  mdDir,      \* monsters_md: file stem -> document
  pc,         \* where the extractor's main() stands
  todo,       \* the files the running loop has yet to visit
  records,    \* main()'s records list
  outFile,    \* monstersfromhtml.json: <<>> while absent, else <<the array written>>
  log,        \* the file names main() printed as skipped
  processed,  \* history: the files handed to a parser, in order
  writes,     \* history: how many times the output file was written
  file,       \* the single document of the parser runs
  result,     \* what its parser returned or raised
  argv,       \* the tabulator's arguments, sys.argv[1:]
  fs,         \* the tabulator's files: path -> content
  fs0,        \* history: the files as the tabulator found them
  tpc,        \* where the tabulator stands, or how it ended
  csvPath,    \* json_to_csv's csv_path
  data,       \* json_to_csv's data
  fieldnames  \* json_to_csv's fieldnames

extractVars == <<htmlDir, mdDir, pc, todo, records, outFile, log, processed, writes>>
parseVars == <<file, result>>
tabVars == <<argv, fs, fs0, tpc, csvPath, data, fieldnames>>
vars == <<extractVars, parseVars, tabVars>>

IdleFile == [kind |-> "none", stem |-> <<>>, doc |-> <<>>]
IdleResult == [kind |-> "idle"]

ExtractIdle ==
  /\ htmlDir = <<>> /\ mdDir = <<>> /\ pc = "idle" /\ todo = <<>> /\ records = <<>>
  /\ outFile = <<>> /\ log = <<>> /\ processed = <<>> /\ writes = 0

ParseIdle == file = IdleFile /\ result = IdleResult

TabIdle ==
  /\ argv = <<>> /\ fs = <<>> /\ fs0 = <<>> /\ tpc = "idle" /\ csvPath = <<>>
  /\ data = <<>> /\ fieldnames = <<>>

\* --------------------------------------------------------------- main()

\* records.insert(0, rec) in place of append
AddRecordFront(recs, rec) == <<rec>> \o recs

\* records.append(rec)
AddRecord(recs, rec) == Append(recs, rec)

InitExtract ==
  /\ htmlDir \in Dirs(HtmlPool)
  /\ mdDir \in Dirs(MdPool)
  /\ pc = "html"
  /\ todo = Glob(htmlDir, HTML_SUFFIX)
  /\ records = <<>>
  /\ outFile = <<>>
  /\ log = <<>>
  /\ processed = <<>>
  /\ writes = 0
  /\ ParseIdle
  /\ TabIdle

\* what a parser call may end as: its own outcome, or the error of a path.read_text()
\* that fails
Outcomes(parsed) == {parsed, RaiseResult("OSError")}

\* one pass of  for html_file in sorted(...glob("*.html")) ; an exception ends main()
HtmlStep ==
  /\ pc = "html"
  /\ todo # <<>>
  /\ \E f \in {Head(todo)} : \E res \in Outcomes(parse_html(f)) :
         /\ processed' = Append(processed, [kind |-> "html", stem |-> f.stem])
         /\ todo' = Tail(todo)
         /\ pc' = IF res.kind = "raise" THEN "crashed" ELSE pc
         /\ records' = IF res.kind = "record" THEN AddRecord(records, res.rec) ELSE records
         /\ log' = IF res.kind = "none" THEN Append(log, f.stem \o HTML_SUFFIX) ELSE log
  /\ UNCHANGED <<htmlDir, mdDir, outFile, writes, parseVars, tabVars>>

\* the HTML loop ends and the Markdown loop starts, over every *.md file
MdStart ==
  /\ pc = "html"
  /\ todo = <<>>
  /\ pc' = "md"
  /\ todo' = Glob(mdDir, MD_SUFFIX)
  /\ UNCHANGED <<htmlDir, mdDir, records, outFile, log, processed, writes,
                 parseVars, tabVars>>

\* one pass of  for md_file in sorted(...glob("*.md")) ; an exception ends main()
MdStep ==
  /\ pc = "md"
  /\ todo # <<>>
  /\ \E f \in {Head(todo)} : \E res \in Outcomes(parse_md(f)) :
         /\ processed' = Append(processed, [kind |-> "md", stem |-> f.stem])
         /\ todo' = Tail(todo)
         /\ pc' = IF res.kind = "raise" THEN "crashed" ELSE pc
         /\ records' = IF res.kind = "record" THEN AddRecord(records, res.rec) ELSE records
  /\ UNCHANGED <<htmlDir, mdDir, outFile, log, writes, parseVars, tabVars>>

\* OUT_FILE.write_text(json.dumps(records, ...))
WriteOut ==
  /\ pc = "md"
  /\ todo = <<>>
  /\ outFile' = <<records>>
  /\ writes' = writes + 1
  /\ pc' = "done"
  /\ UNCHANGED <<htmlDir, mdDir, todo, records, log, processed, parseVars, tabVars>>

NextExtract == HtmlStep \/ MdStart \/ MdStep \/ WriteOut

SpecExtract == InitExtract /\ [][NextExtract]_vars

\* ------------------------------------------------- one document, one parser

InitParse ==
  /\ file \in ParseInputs
  /\ result = IdleResult
  /\ ExtractIdle
  /\ TabIdle

ParseHtmlDoc ==
  /\ file.kind = "html"
  /\ result = IdleResult
  /\ result' = parse_html(file)
  /\ UNCHANGED <<file, extractVars, tabVars>>

ParseMdDoc ==
  /\ file.kind = "md"
  /\ result = IdleResult
  /\ result' = parse_md(file)
  /\ UNCHANGED <<file, extractVars, tabVars>>

NextParse == ParseHtmlDoc \/ ParseMdDoc

SpecParse == InitParse /\ [][NextParse]_vars

\* ------------------------------------------------------------ json_to_csv

\* JSON values and file contents: a type tag and a value; a number carries its text
Val(t, v) == [t |-> t, v |-> v]
Str(v) == Val("str", v)
Absent == Val("absent", <<>>)

NONE_TEXT == <<"N", "o", "n", "e">>

IsBlank(s) == Strip(s) = <<>>

\* the loop body without its isinstance test: only a missing or blank string is replaced
NormalizeRecStringsOnly(rec) ==
  IF K_gear \in DOMAIN rec /\ ~(rec[K_gear].t = "str" /\ IsBlank(rec[K_gear].v)) THEN rec
  ELSE Put(rec, K_gear, Str(NONE_TEXT))

\* normalize_gear's loop body: gear_val = rec.get("gear", ""), replaced by "None" when
\* it is not a string or strips to nothing
NormalizeRec(rec) ==
  LET gear_val == Get(rec, K_gear, Str(<<>>))
  IN  IF gear_val.t # "str" \/ Strip(gear_val.v) = <<>>
      THEN Put(rec, K_gear, Str(NONE_TEXT))
      ELSE rec

normalize_gear(recs) == [i \in 1..Len(recs) |-> NormalizeRec(recs[i])]

AllKeys(recs) == UNION {DOMAIN recs[i] : i \in 1..Len(recs)}

\* sorted(keys) alone: gear present, but in its alphabetical place
build_fieldnames_sorted_only(recs) == Sorted(AllKeys(recs) \cup {K_gear})

build_fieldnames(recs) == Sorted(AllKeys(recs) \ {K_gear}) \o <<K_gear>>

\* what csv.writer puts in a cell: "" for None, the text of anything else
Cell(val) == IF val.t = "null" THEN <<>> ELSE val.v

\* DictWriter with extrasaction="ignore": one cell per field name, "" for a missing key
CsvRow(rec, names) ==
  [i \in 1..Len(names) |-> IF names[i] \in DOMAIN rec THEN Cell(rec[names[i]]) ELSE <<>>]

\* Path.with_suffix(".csv"): the name up to its last dot, then ".csv"
RECURSIVE LastDot(_, _)
LastDot(s, i) == IF i = 0 THEN 0 ELSE IF s[i] = "." THEN i ELSE LastDot(s, i - 1)

WithCsvSuffix(path) ==
  LET d == LastDot(path, Len(path))
  IN  (IF d > 1 THEN SubSeq(path, 1, d - 1) ELSE path) \o <<".", "c", "s", "v">>

P_json == <<"i", "n", ".", "j", "s", "o", "n">>
P_out  == <<"o", "u", "t", ".", "c", "s", "v">>

Paths == {P_json, WithCsvSuffix(P_json), P_out}

\* the i-th command-line argument of the runs
Arg(i) == IF i = 1 THEN P_json ELSE IF i = 2 THEN P_out ELSE <<"e", "x", "t", "r", "a">>

OtherKeys == {<<"c", "r">>, <<"n", "a", "m", "e">>}

GearChoices ==
  {Absent, Str(<<>>), Str(<<" ", "\t">>), Str(<<" ", "A", "x", "e", " ">>), Val("null", <<>>), Val("num", <<"5">>)}

RecordPool ==
  {[k \in S \cup (IF g = Absent THEN {} ELSE {K_gear}) |->
      IF k = K_gear THEN g ELSE Str(<<"x">>)] : S \in SUBSET OtherKeys, g \in GearChoices}

MaxRecs == 2

MaxArgs == 3

JsonInputs ==
  {Val("array", a) : a \in SeqsUpTo(RecordPool, MaxRecs)}
  \cup {Val("object", <<>>), Val("num", <<"7">>)}

OldCsv == Val("csv", <<<<<<"o", "l", "d">>>>>>)

InitTab ==
  /\ argv \in {[i \in 1..n |-> Arg(i)] : n \in 0..MaxArgs}
  /\ \E j \in JsonInputs, c \in {Absent, OldCsv} :
       fs = [p \in Paths |-> IF p = P_json THEN j ELSE c]
  /\ fs0 = fs
  /\ tpc = "start"
  /\ csvPath = <<>>
  /\ data = <<>>
  /\ fieldnames = <<>>
  /\ ExtractIdle
  /\ ParseIdle

\* __main__: the usage check, then json_to_csv's choice of csv_path
TabMain ==
  /\ tpc = "start"
  /\ IF ~(2 <= Len(argv) + 1 /\ Len(argv) + 1 <= 3)
     THEN tpc' = "usage_exit" /\ UNCHANGED csvPath
     ELSE /\ tpc' = "load"
          /\ csvPath' = IF Len(argv) >= 2 /\ argv[2] # <<>> THEN argv[2]
                        ELSE WithCsvSuffix(argv[1])
  /\ UNCHANGED <<argv, fs, fs0, data, fieldnames, extractVars, parseVars>>

\* the load step with the CSV opened for writing before the array check
TabLoadTruncating ==
  /\ tpc = "load"
  /\ fs' = [fs EXCEPT ![csvPath] = Val("csv", <<>>)]
  /\ IF fs[argv[1]].t # "array"
     THEN tpc' = "ValueError" /\ UNCHANGED data
     ELSE tpc' = "normalize" /\ data' = fs[argv[1]].v
  /\ UNCHANGED <<argv, fs0, csvPath, fieldnames, extractVars, parseVars>>

\* 1. Load JSON: json.load, then the isinstance(data, list) check
TabLoad ==
  /\ tpc = "load"
  /\ IF fs[argv[1]].t # "array"
     THEN tpc' = "ValueError" /\ UNCHANGED data
     ELSE tpc' = "normalize" /\ data' = fs[argv[1]].v
  /\ UNCHANGED <<argv, fs, fs0, csvPath, fieldnames, extractVars, parseVars>>

\* 2. Normalise Gear values
TabNormalize ==
  /\ tpc = "normalize"
  /\ data' = normalize_gear(data)
  /\ tpc' = "fieldnames"
  /\ UNCHANGED <<argv, fs, fs0, csvPath, fieldnames, extractVars, parseVars>>

\* 3. Prepare header
TabFieldnames ==
  /\ tpc = "fieldnames"
  /\ fieldnames' = build_fieldnames(data)
  /\ tpc' = "open"
  /\ UNCHANGED <<argv, fs, fs0, csvPath, data, extractVars, parseVars>>

\* 4. Write CSV: open(csv_path, "w") creates or empties the file
TabOpen ==
  /\ tpc = "open"
  /\ fs' = [fs EXCEPT ![csvPath] = Val("csv", <<>>)]
  /\ tpc' = "header"
  /\ UNCHANGED <<argv, fs0, csvPath, data, fieldnames, extractVars, parseVars>>

\* writer.writeheader()
TabWriteHeader ==
  /\ tpc = "header"
  /\ fs' = [fs EXCEPT ![csvPath] = Val("csv", Append(fs[csvPath].v, fieldnames))]
  /\ tpc' = "rows"
  /\ UNCHANGED <<argv, fs0, csvPath, data, fieldnames, extractVars, parseVars>>

\* writer.writerows(data), and the file is closed
TabWriteRows ==
  /\ tpc = "rows"
  /\ fs' = [fs EXCEPT ![csvPath] =
              Val("csv", fs[csvPath].v \o [i \in 1..Len(data) |-> CsvRow(data[i], fieldnames)])]
  /\ tpc' = "done"
  /\ UNCHANGED <<argv, fs0, csvPath, data, fieldnames, extractVars, parseVars>>

NextTab ==
  \/ TabMain
  \/ TabLoad
  \/ TabNormalize
  \/ TabFieldnames
  \/ TabOpen
  \/ TabWriteHeader
  \/ TabWriteRows

SpecTab == InitTab /\ [][NextTab]_vars

\* ------------------------------------------------------------ properties

IsPrefix(a, b) == Len(a) <= Len(b) /\ SubSeq(b, 1, Len(a)) = a

\* the labelled CR value of a document: its "cr" entry, else "challenge rating"
LabelledCr(kind, doc) ==
  IF kind = "html" THEN GetOr(HtmlRows(doc), K_cr, K_challenge)
  ELSE GetOr(MdFields(MdLines(doc), EmptyMap), K_cr, K_challenge)

HasCrToken(text) == \E i \in 1..Len(text) : text[i] \in CR_CHARS

ProcessedDoc(p) == IF p.kind = "html" THEN htmlDir[p.stem] ELSE mdDir[p.stem]

LacksCr(p) == ~HasCrToken(LabelledCr(p.kind, ProcessedDoc(p)))

FileName(p) == p.stem \o (IF p.kind = "html" THEN HTML_SUFFIX ELSE MD_SUFFIX)

\* C1: once main() has processed every document, each record has a non-empty cr and
\* the records number the processed documents less those without a recognizable CR
\* field (no cr / challenge rating entry, or one holding no CR token).
C1_CountAndCr ==
  pc = "done" =>
    /\ \A i \in 1..Len(records) : records[i].cr # <<>>
    /\ Len(records) =
         Len(processed) - Cardinality({i \in 1..Len(processed) : LacksCr(processed[i])})

\* C7: a Markdown document is processed only when no HTML document has its stem, so
\* no two records come from an HTML file and a Markdown file of the same stem.
C7_MarkdownOnlyAsFallback ==
  /\ \A i \in 1..Len(processed) :
       processed[i].kind = "md" => processed[i].stem \notin DOMAIN htmlDir
  /\ \A i, j \in 1..Len(records) :
       \A s \in Stems : ~(records[i].file = s \o HTML_SUFFIX /\ records[j].file = s \o MD_SUFFIX)

Pos(name) == CHOOSE i \in 1..Len(processed) : FileName(processed[i]) = name

C10_State ==
  /\ writes <= 1
  /\ pc = "done" =>
       /\ writes = 1
       /\ outFile = <<records>>
       /\ Len(processed) = Cardinality(DOMAIN htmlDir) + Cardinality(DOMAIN mdDir)
  /\ pc # "done" => writes = 0 /\ outFile = <<>>
  /\ \A i, j \in 1..Len(processed) :
       i < j => \/ processed[i].kind = "html" /\ processed[j].kind = "md"
                \/ /\ processed[i].kind = processed[j].kind
                   /\ LexLess(FileName(processed[i]), FileName(processed[j]))
  /\ \A a \in 1..Len(records) :
       \E i \in 1..Len(processed) : FileName(processed[i]) = records[a].file
  /\ \A a, b \in 1..Len(records) :
       a < b => Pos(records[a].file) < Pos(records[b].file)

C10_Step ==
  /\ IsPrefix(records, records')
  /\ writes' # writes => pc = "md" /\ todo = <<>>

\* C10: the output file is written exactly once, after every HTML and Markdown
\* document was processed, and not at all when a document raises; records are appended
\* in processing order (HTML by name, then Markdown by name) and an appended record is
\* never changed, merged or removed.
C10_WrittenOnceAtEnd == []C10_State /\ [][C10_Step]_vars

C10_Witness ==
  pc = "done" /\ Len(records) >= 2 /\ Len(processed) > Len(records)
  /\ \E i, j \in 1..Len(records) : records[i].file # records[j].file

\* the phrase at position i of a text, in any case
PhraseAt(text, i) ==
  i + Len(LEGENDARY) - 1 <= Len(text)
  /\ Lower(SubSeq(text, i, i + Len(LEGENDARY) - 1)) = LEGENDARY

WholePhraseAt(text, i) ==
  /\ PhraseAt(text, i)
  /\ i > 1 => ~IsWordChar(text[i - 1])
  /\ i + Len(LEGENDARY) <= Len(text) => ~IsWordChar(text[i + Len(LEGENDARY)])

\* a Markdown document's text: its lines, each ended by a line break
RECURSIVE JoinLines(_)
JoinLines(ls) == IF ls = <<>> THEN <<>> ELSE Head(ls) \o <<"\n">> \o JoinLines(Tail(ls))

DocText(f) == IF f.kind = "html" THEN Concat(TextNodes(f.doc)) ELSE JoinLines(f.doc)

HasPhrase(text) == \E i \in 1..Len(text) : PhraseAt(text, i)

C6_NameOrStem ==
  (file.kind = "html" /\ result # IdleResult) =>
    /\ result.kind # "raise"
    /\ result.kind = "record" =>
         /\ (Headings(file.doc) # <<>> /\ get_text(Headings(file.doc)[1]) # <<>>)
              => result.rec.name = clean(get_text(Headings(file.doc)[1]))
         /\ Headings(file.doc) = <<>> => result.rec.name = clean(file.stem)

\* C8: an emitted record's cr is the first run of digits, '.' and '/' of the labelled
\* CR value, non-empty; a document whose CR value holds no such run yields no record.
C8_CrIsToken ==
  /\ result.kind = "record" =>
       /\ result.rec.cr # <<>>
       /\ Range(result.rec.cr) \subseteq CR_CHARS
       /\ \E i \in 1..Len(LabelledCr(file.kind, file.doc)) :
            LET v == LabelledCr(file.kind, file.doc)
                n == Len(result.rec.cr)
            IN  /\ i + n - 1 <= Len(v)
                /\ SubSeq(v, i, i + n - 1) = result.rec.cr
                /\ \A k \in 1..(i - 1) : v[k] \notin CR_CHARS
                /\ i + n <= Len(v) => v[i + n] \notin CR_CHARS
  /\ (result # IdleResult /\ ~HasCrToken(LabelledCr(file.kind, file.doc)))
       => result.kind # "record"

\* a paragraph's type candidate: the second italic span's cleaned text when it has two
\* or more, extract_type_from_em of the span when it has one
Candidate(p) ==
  LET ems == KidsOf(p, "em")
  IN  IF Len(ems) >= 2 THEN clean(ems[2].text)
      ELSE IF Len(ems) = 1 THEN extract_type_from_em(ems[1].text)
      ELSE <<>>

FirstCandidate(ps) ==
  LET hits == {k \in 1..Len(ps) : Candidate(ps[k]) # <<>>}
  IN  IF hits = {} THEN <<>> ELSE Candidate(ps[CHOOSE k \in hits : \A m \in hits : k <= m])

\* C9: the type scan stops at the first paragraph, in document order, whose candidate
\* is non-empty; a paragraph with an empty candidate does not stop it.
C9_FirstNonEmptyCandidate ==
  (file.kind = "html" /\ result.kind = "record") =>
    result.rec.type = FinishType(FirstCandidate(find_all(file.doc, "p")))

InputRecs == fs0[argv[1]].v

\* C2: the CSV header is the union of the input records' keys other than gear, in
\* ascending (code point) order, then gear as the last column; no key twice.
C2_HeaderGearLast ==
  tpc \in {"rows", "done"} =>
    LET h      == fs[csvPath].v[1]
        n      == Len(h)
        others == AllKeys(InputRecs) \ {K_gear}
    IN  /\ n = Cardinality(others) + 1
        /\ h[n] = K_gear
        /\ {h[i] : i \in 1..(n - 1)} = others
        /\ \A i, j \in 1..(n - 1) : i < j => LexLess(h[i], h[j])

C2_Witness ==
  /\ tpc = "done"
  /\ Len(fs[csvPath].v[1]) = 3
  /\ \E i, j \in 1..Len(InputRecs) :
       K_gear \in DOMAIN InputRecs[i] /\ K_gear \notin DOMAIN InputRecs[j]

GearMissingOrBlank(rec) ==
  \/ K_gear \notin DOMAIN rec
  \/ rec[K_gear].t # "str"
  \/ \A i \in 1..Len(rec[K_gear].v) : IsSpace(rec[K_gear].v[i])

\* C3: a row's gear cell is "None" when the input record's gear is absent, not a
\* string or blank, and the record's own gear otherwise; no gear cell is blank.
C3_GearCell ==
  tpc = "done" =>
    LET rows == fs[csvPath].v
        g    == CHOOSE c \in 1..Len(rows[1]) : rows[1][c] = K_gear
    IN  /\ Len(rows) = Len(InputRecs) + 1
        /\ \A i \in 1..Len(InputRecs) :
             /\ rows[i + 1][g] =
                  IF GearMissingOrBlank(InputRecs[i]) THEN NONE_TEXT
                  ELSE InputRecs[i][K_gear].v
             /\ \E k \in 1..Len(rows[i + 1][g]) : ~IsSpace(rows[i + 1][g][k])

C3_Witness ==
  /\ tpc = "done"
  /\ \E j, k \in 1..Len(InputRecs) :
       /\ K_gear \in DOMAIN InputRecs[j] /\ InputRecs[j][K_gear].t = "null"
       /\ ~GearMissingOrBlank(InputRecs[k])

\* C4: with zero or more than two arguments the tabulator exits with the usage
\* message, and a top-level JSON value that is no array raises; either way no file is
\* created or changed.
C4_RejectsBeforeWriting ==
  /\ tpc \in {"usage_exit", "ValueError"} => fs = fs0
  /\ (tpc # "start" /\ (Len(argv) = 0 \/ Len(argv) > 2)) => tpc = "usage_exit"
  /\ (tpc \notin {"start", "load"} /\ Len(argv) \in {1, 2} /\ fs0[argv[1]].t # "array")
       => tpc = "ValueError"

C4_Witness == tpc = "ValueError" /\ fs0[csvPath] = OldCsv /\ Len(argv) = 2

====
